---- MODULE Spec2Model ----
(***************************************************************************)
(* Model of the @lyra-dev/runtime package: signal(), batch(), computed(),  *)
(* effect() and mount().  JavaScript runs to completion on one thread, so  *)
(* the model keeps an explicit call stack: a frame for a batch body that   *)
(* is executing, a frame for a setter that is iterating its listener set,  *)
(* and a frame for a batch that is flushing its queue.  A step of the      *)
(* model is one call made by user code (at top level or in a batch body)   *)
(* or one listener invocation made by the runtime.                         *)
(*                                                                         *)
(* User code is the environment.  It writes signals, opens and closes      *)
(* batches, lets a batch body throw, subscribes and unsubscribes its own   *)
(* listeners at top level, and calls computed, effect, the disposer, mount *)
(* and cleanup at top level or in a batch body.  User listeners are of     *)
(* fixed kinds: f records, w writes to a signal re-entrantly, t throws.    *)
(* No listener changes a listener set, and exceptions are caught only by   *)
(* the top-level caller.                                                   *)
(*                                                                         *)
(* The second half models the @lyra-dev/compiler package: compile(),       *)
(* runA11yChecks(), transformReactivity() and generateSourceMap() are      *)
(* operators over JSX trees, applied by the actions of SpecCompiler to the *)
(* files drawn by its initial condition.                                   *)
(***************************************************************************)
EXTENDS Integers, Sequences, FiniteSets, TLC

VARIABLES
  value,           \* signal -> the closure variable _value
  listeners,       \* signal -> the Set `listeners`, in insertion order
  batchDepth,      \* _batchDepth
  pendingEffects,  \* _pendingEffects: closures () => fn(v)
  stack,           \* call stack of the runtime, innermost frame last
  exc,             \* an exception is propagating
  computedMade,    \* computed(fn, [a, b]) has been called
  effectMade,      \* effect(fn, [a, p, b]) has been called
  unsubs,          \* the array `unsubs` of the effect() call
  disposed,        \* the disposer returned by effect() has been called
  mounted,         \* mount(root) has been called
  cleanupFns,      \* the array `cleanupFns` of the mount() call
  cleaned,         \* the cleanup function returned by mount() has been called
  domProp,         \* which data-<prop> attribute the element carries
  dom,             \* the element's DOM property named by domProp
  handlerName,     \* the value k of the element's data-on-click attribute
  elOwn,           \* what the element holds as own property k
  rootOwn,         \* what root holds as own property k
  evRegs,          \* the element's event listener list for "click"
  mounts,          \* per mount(root) call: its array cleanupFns, and whether
                   \* the cleanup function it returned has been invoked
  srcFile,         \* the file given to the compiler
  called,          \* the compiler function called on it, and its options
  returned,        \* what that call returned
  unsubscribes,    \* the closures returned by the subscribe calls of user code
  trace,           \* writes and listener invocations of the current top-level call
  last             \* the most recent step

coreVars == <<value, listeners, batchDepth, pendingEffects, stack, exc>>
derivedVars == <<computedMade, effectMade, unsubs, disposed>>
eventVars == <<handlerName, elOwn, rootOwn, evRegs, mounts>>
compilerVars == <<srcFile, called, returned>>
otherVars == <<eventVars, compilerVars, unsubscribes>>
mountVars == <<mounted, cleanupFns, cleaned, domProp, dom, otherVars>>
runtimeVars == <<coreVars, derivedVars, mounted, cleanupFns, cleaned, domProp, dom,
                 eventVars, unsubscribes, trace, last>>
vars == <<value, listeners, batchDepth, pendingEffects, stack, exc,
          computedMade, effectMade, unsubs, disposed,
          mounted, cleanupFns, cleaned, domProp, dom, otherVars, trace, last>>

----------------------------------------------------------------------------
(* Bounds *)

\* nesting of batch() calls explored
MaxDepth == 2
\* value-changing writes explored in one top-level call
MaxWrites == 2

----------------------------------------------------------------------------
(* Values *)

NaN == "NaN"
PosZero == "+0"
NegZero == "-0"
One == "1"
Null == "null"

Range(seq) == {seq[i] : i \in DOMAIN seq}

IsZero(x) == x \in {PosZero, NegZero}

\* JavaScript x === y on the modelled values
StrictEquals(x, y) ==
  IF x = NaN \/ y = NaN THEN FALSE
  ELSE IF IsZero(x) /\ IsZero(y) THEN TRUE
  ELSE x = y

\* the setter compares with === instead of Object.is
ObjectIs_strict(x, y) == StrictEquals(x, y)

\* Object.is(x, y): SameValue
ObjectIs(x, y) ==
  IF x = NaN /\ y = NaN THEN TRUE
  ELSE IF IsZero(x) /\ IsZero(y) THEN x = y
  ELSE StrictEquals(x, y)

\* ToNumber on the modelled values (null converts to +0)
ToNumber(x) == IF x = Null THEN PosZero ELSE x

\* JavaScript x * y on the modelled values
Mul(x, y) ==
  LET nx == ToNumber(x)
      ny == ToNumber(y)
  IN IF nx = NaN \/ ny = NaN THEN NaN
     ELSE IF nx = One THEN ny
     ELSE IF ny = One THEN nx
     ELSE IF nx = ny THEN PosZero ELSE NegZero

----------------------------------------------------------------------------
(* Listeners.  A listener is a function value; the Set holds each once. *)

\* what the body of each listener does
Kind(l) ==
  CASE l \in {"f", "g"} -> "record"
    [] l = "w" -> "write"
    [] l = "t" -> "throw"
    [] l \in {"cA", "cB"} -> "computed"
    [] l \in {"eA", "eB"} -> "effect"
    [] OTHER -> "dom"

\* the re-entrant listener is (v) => { a.value = -0 }
WSig == "a"
WVal == NegZero

----------------------------------------------------------------------------
(* Observation of one top-level call *)

WriteEv(id, s, v, d, subs) ==
  [t |-> "write", id |-> id, sig |-> s, v |-> v, d |-> d, subs |-> subs,
   fn |-> "-", src |-> "-", m |-> mounted /\ ~cleaned]

CallEv(e, d, src) ==
  [t |-> "call", id |-> e.w, sig |-> e.sig, v |-> e.v, d |-> d, subs |-> <<>>,
   fn |-> e.fn, src |-> src, m |-> FALSE]

RunEv(e, d) ==
  [t |-> "run", id |-> e.w, sig |-> e.sig, v |-> "-", d |-> d, subs |-> <<>>,
   fn |-> "fn", src |-> "-", m |-> FALSE]

Writes(tr) == {i \in DOMAIN tr : tr[i].t = "write"}
Calls(tr) == {i \in DOMAIN tr : tr[i].t = "call"}
NumWrites(tr) == Cardinality(Writes(tr))
NumCalls(tr) == Cardinality(Calls(tr))

NoSet == [on |-> FALSE, sig |-> "-", v |-> "-", old |-> "-", q |-> 0, sl |-> 0, d |-> 0]
Step(op) == [op |-> op, fn |-> "-", w |-> 0, entry |-> 0, set |-> NoSet]

\* the step ran the setter of s with v; tr and stk are the trace and the
\* stack the setter was entered with
SetStep(op, s, v, tr, stk) ==
  [Step(op) EXCEPT !.set = [on |-> TRUE, sig |-> s, v |-> v, old |-> value[s],
                            q |-> Len(pendingEffects), sl |-> Len(stk),
                            d |-> batchDepth]]

----------------------------------------------------------------------------
(* Call stack *)

Frame(k, rest, thrown, entry, w) ==
  [k |-> k, rest |-> rest, thrown |-> thrown, entry |-> entry, w |-> w]

Top == stack[Len(stack)]
Pop(stk) == SubSeq(stk, 1, Len(stk) - 1)
AtTopLevel == stack = <<>> /\ ~exc
InBody == stack # <<>> /\ ~exc /\ Top.k = "body"
\* user code is running: the top-level script or the body of a batch
InUserCode == AtTopLevel \/ InBody
\* a new top-level call starts a new observation
BaseTrace == IF stack = <<>> THEN <<>> ELSE trace

----------------------------------------------------------------------------
(* signal(): the value setter *)

\* the setter's test `_batchDepth > 0`
Deferred(d) == d > 0

\* a closure for the first listener only
Effects_first(s, v, wid) ==
  [i \in 1..(IF Len(listeners[s]) = 0 THEN 0 ELSE 1) |->
     [fn |-> listeners[s][i], v |-> v, w |-> wid, sig |-> s]]

\* listeners.forEach((fn) => ... () => fn(v)): one closure per listener
Effects(s, v, wid) ==
  [i \in 1..Len(listeners[s]) |->
     [fn |-> listeners[s][i], v |-> v, w |-> wid, sig |-> s]]

\* the closures are put at the front of the queue (unshift)
Enqueue_front(q, es) == es \o q

\* _pendingEffects.push(...) for each listener, in order
Enqueue(q, es) == q \o es

\* set value(v): the state the setter leaves, entered with stack stk and
\* trace tr
Setter(s, v, stk, tr) ==
  IF ObjectIs(value[s], v)
  THEN [value |-> value, pending |-> pendingEffects, stack |-> stk, trace |-> tr]
  ELSE LET wid == NumWrites(tr) + 1
           tr1 == Append(tr, WriteEv(wid, s, v, batchDepth, listeners[s]))
           nv == [value EXCEPT ![s] = v]
       IN IF Deferred(batchDepth)
          THEN [value |-> nv, pending |-> Enqueue(pendingEffects, Effects(s, v, wid)),
                stack |-> stk, trace |-> tr1]
          ELSE [value |-> nv, pending |-> pendingEffects,
                stack |-> Append(stk, Frame("notify", Effects(s, v, wid), FALSE, 0, wid)),
                trace |-> tr1]

ApplySetter(r) ==
  /\ value' = r.value
  /\ pendingEffects' = r.pending
  /\ stack' = r.stack
  /\ trace' = r.trace

\* an array push instead of Set.add: no check for a present element
SetAdd_push(ls, l) == Append(ls, l)

\* subscribe(fn): listeners.add(fn)
SetAdd(ls, l) == IF \E i \in DOMAIN ls : ls[i] = l THEN ls ELSE Append(ls, l)

\* the closure returned by subscribe: listeners.delete(fn)
SetDelete(ls, l) == SelectSeq(ls, LAMBDA x : x # l)

----------------------------------------------------------------------------
(* computed(() => a.value * b.value, [a, b]) *)

\* the second dependency is left out of the subscription loop
ComputedDeps_first == <<"a">>

ComputedDeps == <<"a", "b">>
ComputedListener(s) == IF s = "a" THEN "cA" ELSE "cB"
Fn(val) == Mul(val["a"], val["b"])

----------------------------------------------------------------------------
(* mount(): setDomProp *)

\* String(nv)
String(nv) == IF IsZero(nv) THEN "0" ELSE nv
\* Boolean(nv)
Boolean(nv) == IF nv \in {NaN, PosZero, NegZero, Null} THEN "false" ELSE "true"
DomNull == "NULL"

\* the DOM property of a fresh element
DomDefault(prop) ==
  CASE prop = "value" -> ""
    [] prop \in {"checked", "disabled"} -> "false"
    [] OTHER -> DomNull

setDomProp(prop, nv) ==
  CASE prop = "value" -> IF nv = Null THEN "" ELSE String(nv)
    [] prop = "checked" -> Boolean(nv)
    [] prop = "disabled" -> Boolean(nv)
    [] OTHER -> IF nv = Null THEN DomNull ELSE String(nv)

----------------------------------------------------------------------------
(* batch() *)

\* the decrement is not in a finally block: skipped when fn throws
BatchDepthAfter_noFinally(d, thrown) == IF thrown THEN d ELSE d - 1

\* finally { _batchDepth--; ... }: runs whether or not fn threw
BatchDepthAfter(d, thrown) == d - 1

\* the flush runs at the end of every batch call, nested or not
ShouldFlush_always(d) == TRUE

\* if (_batchDepth === 0)
ShouldFlush(d) == d = 0

\* slice(0) instead of splice(0): the array keeps its elements
AfterSplice_keep(q) == q

\* _pendingEffects.splice(0): the removed elements, and what the array keeps
Spliced(q) == q
AfterSplice(q) == <<>>

\* batch(fn): _batchDepth++ and fn starts to run
BatchEnter ==
  /\ InUserCode
  /\ batchDepth < MaxDepth
  /\ batchDepth' = batchDepth + 1
  /\ stack' = Append(stack, Frame("body", <<>>, FALSE, batchDepth, 0))
  /\ trace' = BaseTrace
  /\ last' = Step("enter")
  /\ UNCHANGED <<value, listeners, pendingEffects, exc, derivedVars, mountVars>>

\* the finally block of batch, entered after fn returned or threw
BatchExit(thrown) ==
  LET d == BatchDepthAfter(batchDepth, thrown)
  IN /\ batchDepth' = d
     /\ IF ShouldFlush(d)
        THEN \* const effects = _pendingEffects.splice(0); effects.forEach(...)
             /\ pendingEffects' = AfterSplice(pendingEffects)
             /\ stack' = Append(Pop(stack),
                                Frame("flush", Spliced(pendingEffects), thrown,
                                      Top.entry, 0))
             /\ exc' = FALSE
             /\ last' = [Step("flush") EXCEPT !.entry = Top.entry]
        ELSE /\ pendingEffects' = pendingEffects
             /\ stack' = Pop(stack)
             /\ exc' = thrown
             /\ last' = [Step(IF thrown THEN "batchThrow" ELSE "batchReturn")
                           EXCEPT !.entry = Top.entry]
     /\ UNCHANGED <<value, listeners, trace, derivedVars, mountVars>>

\* fn returns
BodyReturn == InBody /\ BatchExit(FALSE)

\* fn throws
BodyThrow == InBody /\ BatchExit(TRUE)

\* a batch called by fn threw and fn does not catch
BodyUnwind ==
  /\ exc
  /\ stack # <<>>
  /\ Top.k = "body"
  /\ BatchExit(TRUE)

----------------------------------------------------------------------------
(* User code: signal.value = v, subscribe, unsubscribe *)

UserSigs == {"a", "b"}
UserVals == {NaN, PosZero, NegZero}

Write(s, v) ==
  /\ InUserCode
  /\ NumWrites(BaseTrace) < MaxWrites
  /\ ApplySetter(Setter(s, v, stack, BaseTrace))
  /\ last' = SetStep("write", s, v, BaseTrace, stack)
  /\ UNCHANGED <<listeners, batchDepth, exc, derivedVars, mountVars>>

Subscribe(l, s) ==
  /\ AtTopLevel
  /\ listeners' = [listeners EXCEPT ![s] = SetAdd(@, l)]
  /\ trace' = BaseTrace
  /\ last' = [Step("subscribe") EXCEPT !.fn = l]
  /\ UNCHANGED <<value, batchDepth, pendingEffects, stack, exc, derivedVars, mountVars>>

Unsubscribe(l, s) ==
  /\ AtTopLevel
  /\ \E i \in DOMAIN listeners[s] : listeners[s][i] = l
  /\ listeners' = [listeners EXCEPT ![s] = SetDelete(@, l)]
  /\ trace' = BaseTrace
  /\ last' = [Step("unsubscribe") EXCEPT !.fn = l]
  /\ UNCHANGED <<value, batchDepth, pendingEffects, stack, exc, derivedVars, mountVars>>

----------------------------------------------------------------------------
(* The runtime calls listeners: forEach in the setter and in the flush *)

\* the listener of closure e is called; stk is the stack once e is taken
Invoke(e, src, stk) ==
  LET tr1 == Append(trace, CallEv(e, batchDepth, src))
      call == [Step("call") EXCEPT !.fn = e.fn, !.w = e.w]
  IN \/ /\ Kind(e.fn) = "record"
        /\ stack' = stk
        /\ trace' = tr1
        /\ last' = call
        /\ UNCHANGED <<value, pendingEffects, exc, dom>>
     \/ /\ Kind(e.fn) = "throw"
        /\ stack' = stk
        /\ trace' = tr1
        /\ exc' = TRUE
        /\ last' = call
        /\ UNCHANGED <<value, pendingEffects, dom>>
     \/ /\ Kind(e.fn) = "write"
        /\ ApplySetter(Setter(WSig, WVal, stk, tr1))
        /\ last' = [SetStep("call", WSig, WVal, tr1, stk) EXCEPT !.fn = e.fn, !.w = e.w]
        /\ UNCHANGED <<exc, dom>>
     \/ /\ Kind(e.fn) = "computed"
        /\ ApplySetter(Setter("c", Fn(value), stk, tr1))
        /\ last' = [SetStep("call", "c", Fn(value), tr1, stk) EXCEPT !.fn = e.fn, !.w = e.w]
        /\ UNCHANGED <<exc, dom>>
     \/ /\ Kind(e.fn) = "effect"
        /\ stack' = stk
        /\ trace' = Append(tr1, RunEv(e, batchDepth))
        /\ last' = call
        /\ UNCHANGED <<value, pendingEffects, exc, dom>>
     \/ /\ Kind(e.fn) = "dom"
        /\ stack' = stk
        /\ trace' = tr1
        /\ dom' = setDomProp(domProp, e.v)
        /\ last' = call
        /\ UNCHANGED <<value, pendingEffects, exc>>

InForEach == stack # <<>> /\ ~exc /\ Top.k \in {"notify", "flush"}

\* forEach calls the next closure
ForEachStep ==
  /\ InForEach
  /\ Top.rest # <<>>
  /\ Invoke(Head(Top.rest), Top.k,
            [stack EXCEPT ![Len(stack)].rest = Tail(@)])
  /\ UNCHANGED <<listeners, batchDepth, derivedVars, mounted, cleanupFns, cleaned,
                 domProp, otherVars>>

\* the setter returns to its caller
WriteReturn ==
  /\ InForEach
  /\ Top.k = "notify"
  /\ Top.rest = <<>>
  /\ stack' = Pop(stack)
  /\ last' = [Step("writeReturn") EXCEPT !.w = Top.w]
  /\ UNCHANGED <<value, listeners, batchDepth, pendingEffects, exc, trace,
                 derivedVars, mountVars>>

\* the flush is over: batch returns, or rethrows what fn threw
FlushReturn ==
  /\ InForEach
  /\ Top.k = "flush"
  /\ Top.rest = <<>>
  /\ stack' = Pop(stack)
  /\ exc' = Top.thrown
  /\ last' = [Step(IF Top.thrown THEN "batchThrow" ELSE "batchReturn")
                EXCEPT !.entry = Top.entry, !.fn = "flushed"]
  /\ UNCHANGED <<value, listeners, batchDepth, pendingEffects, trace,
                 derivedVars, mountVars>>

\* a listener threw: forEach is abandoned, the setter or batch throws
Unwind ==
  /\ exc
  /\ stack # <<>>
  /\ Top.k \in {"notify", "flush"}
  /\ stack' = Pop(stack)
  /\ last' = [Step(IF Top.k = "flush" THEN "batchThrow" ELSE "writeThrow")
                EXCEPT !.entry = Top.entry, !.w = Top.w, !.fn = "aborted"]
  /\ UNCHANGED <<value, listeners, batchDepth, pendingEffects, exc, trace,
                 derivedVars, mountVars>>

\* the top-level caller catches
Catch ==
  /\ exc
  /\ stack = <<>>
  /\ exc' = FALSE
  /\ last' = Step("caught")
  /\ UNCHANGED <<value, listeners, batchDepth, pendingEffects, stack, trace,
                 derivedVars, mountVars>>

Runtime ==
  \/ ForEachStep
  \/ WriteReturn
  \/ FlushReturn
  \/ Unwind
  \/ BodyUnwind
  \/ Catch

----------------------------------------------------------------------------
(* Signals and batches *)

InitCommon ==
  /\ value = [a |-> PosZero, b |-> PosZero, c |-> "-"]
  /\ listeners = [a |-> <<>>, b |-> <<>>, c |-> <<>>]
  /\ batchDepth = 0
  /\ pendingEffects = <<>>
  /\ stack = <<>>
  /\ exc = FALSE
  /\ computedMade = FALSE
  /\ effectMade = FALSE
  /\ unsubs = <<>>
  /\ disposed = FALSE
  /\ mounted = FALSE
  /\ cleanupFns = <<>>
  /\ cleaned = FALSE
  /\ dom = DomDefault(domProp)
  /\ evRegs = {}
  /\ unsubscribes = <<>>
  /\ mounts = [m \in {"m1", "m2"} |-> [made |-> FALSE, fns |-> <<>>, ran |-> FALSE]]
  /\ trace = <<>>
  /\ last = Step("init")

\* the element carries no data-on-click attribute that resolves to anything
NoHandler ==
  /\ handlerName = "onClick"
  /\ elOwn = "absent"
  /\ rootOwn = "absent"

\* the compiler is not used
NoFile ==
  /\ srcFile = <<>>
  /\ called = <<>>
  /\ returned = <<>>

Init ==
  /\ domProp = "value"
  /\ NoHandler
  /\ NoFile
  /\ InitCommon

\* listeners user code subscribes, and to which signal
SubPairs == {<<"f", "a">>, <<"f", "b">>, <<"w", "a">>, <<"t", "a">>}

Next ==
  \/ \E s \in UserSigs, v \in UserVals : Write(s, v)
  \/ \E p \in SubPairs : Subscribe(p[1], p[2])
  \/ \E p \in SubPairs : Unsubscribe(p[1], p[2])
  \/ BatchEnter
  \/ BodyReturn
  \/ BodyThrow
  \/ Runtime

Spec == Init /\ [][Next]_vars

----------------------------------------------------------------------------
(* subscribe and the closures it returns, called any number of times *)

MaxSubscribes == 2

\* const unsubscribe = s.subscribe(l), at top level or in the body of a batch
SubscribeCall(l, s) ==
  /\ InUserCode
  /\ Len(unsubscribes) < MaxSubscribes
  /\ listeners' = [listeners EXCEPT ![s] = SetAdd(@, l)]
  /\ unsubscribes' = Append(unsubscribes, [sig |-> s, fn |-> l, called |-> FALSE, deleted |-> FALSE])
  /\ trace' = BaseTrace
  /\ last' = [Step("subscribe") EXCEPT !.fn = l]
  /\ UNCHANGED <<value, batchDepth, pendingEffects, stack, exc, derivedVars,
                 mounted, cleanupFns, cleaned, domProp, dom, eventVars, compilerVars>>

\* the closure returned by the u-th subscribe call is called, for the first
\* time or again: listeners.delete(fn), which returns whether fn was in the
\* set
UnsubscribeCall(u) ==
  /\ InUserCode
  /\ u \in DOMAIN unsubscribes
  /\ listeners' = [listeners EXCEPT ![unsubscribes[u].sig] = SetDelete(@, unsubscribes[u].fn)]
  /\ unsubscribes' = [unsubscribes EXCEPT
                        ![u].called = TRUE,
                        ![u].deleted = unsubscribes[u].fn
                                         \in Range(listeners[unsubscribes[u].sig])]
  /\ trace' = BaseTrace
  /\ last' = [Step("unsubscribe") EXCEPT !.fn = unsubscribes[u].fn, !.w = u,
                                         !.entry = IF unsubscribes[u].called THEN 1 ELSE 0]
  /\ UNCHANGED <<value, batchDepth, pendingEffects, stack, exc, derivedVars,
                 mounted, cleanupFns, cleaned, domProp, dom, eventVars, compilerVars>>

PairsSubscribe == {<<"f", "a">>, <<"t", "a">>}

NextSubscribe ==
  \/ \E v \in {PosZero, NegZero} : Write("a", v)
  \/ \E p \in PairsSubscribe : SubscribeCall(p[1], p[2])
  \/ \E u \in 1..MaxSubscribes : UnsubscribeCall(u)
  \/ BatchEnter
  \/ BodyReturn
  \/ BodyThrow
  \/ Runtime

SpecSubscribe == Init /\ [][NextSubscribe]_vars

----------------------------------------------------------------------------
(* computed() *)

\* const s = signal(fn()); for (const dep of deps) dep.subscribe?.(...)
Computed ==
  /\ InUserCode
  /\ ~computedMade
  /\ computedMade' = TRUE
  /\ value' = [value EXCEPT !["c"] = Fn(value)]
  /\ listeners' = [s \in DOMAIN listeners |->
                     IF s \in Range(ComputedDeps)
                     THEN SetAdd(listeners[s], ComputedListener(s))
                     ELSE listeners[s]]
  /\ trace' = BaseTrace
  /\ last' = Step("computed")
  /\ UNCHANGED <<batchDepth, pendingEffects, stack, exc, effectMade, unsubs,
                 disposed, mountVars>>

PairsComputed == {<<"w", "a">>, <<"t", "b">>, <<"f", "c">>}

NextComputed ==
  \/ \E s \in UserSigs, v \in UserVals : Write(s, v)
  \/ \E p \in PairsComputed : Subscribe(p[1], p[2])
  \/ \E p \in PairsComputed : Unsubscribe(p[1], p[2])
  \/ Computed
  \/ BatchEnter
  \/ BodyReturn
  \/ BodyThrow
  \/ Runtime

SpecComputed == Init /\ [][NextComputed]_vars

----------------------------------------------------------------------------
(* effect(fn, [a, p, b]) where p is { value, __isSignal: true }, an object *)
(* of type Signal that has no subscribe                                    *)

EffectDeps == <<"a", "p", "b">>
HasSubscribe(s) == s # "p"
EffectListener(s) == IF s = "a" THEN "eA" ELSE "eB"

\* the closures are recorded but never called
RunUnsubs_none(ls, us) == ls

\* every closure of us is called: listeners.delete(fn) on its signal
RunUnsubs(ls, us) ==
  [s \in DOMAIN ls |->
     SelectSeq(ls[s], LAMBDA x : ~\E i \in DOMAIN us : us[i].sig = s /\ us[i].fn = x)]

Effect ==
  /\ InUserCode
  /\ ~effectMade
  /\ effectMade' = TRUE
  /\ LET deps == SelectSeq(EffectDeps, HasSubscribe)
     IN /\ listeners' = [s \in DOMAIN listeners |->
                           IF s \in Range(deps)
                           THEN SetAdd(listeners[s], EffectListener(s))
                           ELSE listeners[s]]
        /\ unsubs' = [i \in DOMAIN deps |->
                        [sig |-> deps[i], fn |-> EffectListener(deps[i])]]
  /\ trace' = BaseTrace
  /\ last' = Step("effect")
  /\ UNCHANGED <<value, batchDepth, pendingEffects, stack, exc, computedMade,
                 disposed, mountVars>>

\* the disposer: unsubs.forEach((u) => u())
Dispose ==
  /\ InUserCode
  /\ effectMade
  /\ listeners' = RunUnsubs(listeners, unsubs)
  /\ disposed' = TRUE
  /\ trace' = BaseTrace
  /\ last' = Step("dispose")
  /\ UNCHANGED <<value, batchDepth, pendingEffects, stack, exc, computedMade,
                 effectMade, unsubs, mountVars>>

PairsEffect == {<<"w", "a">>, <<"t", "b">>}

NextEffect ==
  \/ \E s \in UserSigs, v \in UserVals : Write(s, v)
  \/ \E p \in PairsEffect : Subscribe(p[1], p[2])
  \/ \E p \in PairsEffect : Unsubscribe(p[1], p[2])
  \/ Effect
  \/ Dispose
  \/ BatchEnter
  \/ BodyReturn
  \/ BodyThrow
  \/ Runtime

SpecEffect == Init /\ [][NextEffect]_vars

----------------------------------------------------------------------------
(* mount(root): root carries data-<domProp>="sig" and root.sig is signal a *)

DomProps == {"value", "checked", "disabled", "ariaLabel"}
BoundSig == "a"

Mount ==
  /\ InUserCode
  /\ ~mounted
  /\ mounted' = TRUE
  \* setDomProp(prop, s.value)
  /\ dom' = setDomProp(domProp, value[BoundSig])
  \* const unsubscribe = s.subscribe?.((nv) => setDomProp(prop, nv))
  /\ listeners' = [listeners EXCEPT ![BoundSig] = SetAdd(@, "dom")]
  /\ cleanupFns' = <<[sig |-> BoundSig, fn |-> "dom"]>>
  /\ trace' = BaseTrace
  /\ last' = Step("mount")
  /\ UNCHANGED <<value, batchDepth, pendingEffects, stack, exc, derivedVars,
                 cleaned, domProp, otherVars>>

\* the cleanup function: cleanupFns.forEach((fn) => fn())
Cleanup ==
  /\ InUserCode
  /\ mounted
  /\ listeners' = RunUnsubs(listeners, cleanupFns)
  /\ cleaned' = TRUE
  /\ trace' = BaseTrace
  /\ last' = Step("cleanup")
  /\ UNCHANGED <<value, batchDepth, pendingEffects, stack, exc, derivedVars,
                 mounted, cleanupFns, domProp, dom, otherVars>>

MountVals == {Null, PosZero, One}
PairsMount == {<<"w", "a">>, <<"t", "a">>}

\* the one subscribe call of the script
SubscribeOnce(l, s) == unsubscribes = <<>> /\ SubscribeCall(l, s)

\* one subscribe call, effect and mount, and the unsubscribe, disposer and
\* cleanup they return, called at top level or in the body of a batch
NextQueued ==
  \/ \E v \in {PosZero, NegZero} : Write("a", v)
  \/ \E p \in PairsSubscribe : SubscribeOnce(p[1], p[2])
  \/ \E u \in 1..MaxSubscribes : UnsubscribeCall(u)
  \/ Effect
  \/ Dispose
  \/ Mount
  \/ Cleanup
  \/ BatchEnter
  \/ BodyReturn
  \/ BodyThrow
  \/ Runtime

SpecQueued == Init /\ [][NextQueued]_vars

InitMount ==
  /\ domProp \in DomProps
  /\ NoHandler
  /\ NoFile
  /\ InitCommon

NextMount ==
  \/ \E v \in MountVals : Write(BoundSig, v)
  \/ \E p \in PairsMount : Subscribe(p[1], p[2])
  \/ \E p \in PairsMount : Unsubscribe(p[1], p[2])
  \/ Mount
  \/ Cleanup
  \/ BatchEnter
  \/ BodyReturn
  \/ BodyThrow
  \/ Runtime

SpecMount == InitMount /\ [][NextMount]_vars

----------------------------------------------------------------------------
(* mount(root) called more than once: root has one child element el that   *)
(* carries data-on-click="<handlerName>" and data-value="sig"; el.sig is   *)
(* signal a.  What el and root hold as own property <handlerName> is       *)
(* chosen by the page.                                                     *)

UNSAFE_KEYS == {"__proto__", "constructor", "prototype"}
\* an own property is absent, a function, or an object that is not a
\* function
PropKinds == {"absent", "function", "object"}
MountIds == {"m1", "m2"}

Undefined == [of |-> "-", kind |-> "undefined"]
\* the value held as own property by `who`
OwnValue(who, kind) ==
  IF kind = "absent" THEN Undefined ELSE [of |-> who, kind |-> kind]
TypeOf(x) == x.kind
Truthy(x) == x.kind \in {"function", "object"}

\* the pages explored: every combination of own properties under an
\* ordinary name, and functions on both under each unsafe name
Pages ==
  {<<"onClick", e, r>> : e \in PropKinds, r \in PropKinds}
    \cup {<<k, "function", "function">> : k \in UNSAFE_KEYS}

\* if (UNSAFE_KEYS.has(key)) return undefined;
\* return hasOwnProperty.call(el, key) ? el[key] : undefined
safeGet(who, kind, key) ==
  IF key \in UNSAFE_KEYS THEN Undefined ELSE OwnValue(who, kind)

\* typeof fromEl === "function" ? fromEl : fromRoot
Candidate ==
  LET fromEl == safeGet("el", elOwn, handlerName)
      fromRoot == safeGet("root", rootOwn, handlerName)
  IN IF TypeOf(fromEl) = "function" THEN fromEl ELSE fromRoot

\* the listener (nv) => setDomProp(prop, nv) created by mount call m
DomListener(m) == IF m = "m1" THEN "dom1" ELSE "dom2"

\* the closures pushed on cleanupFns
RemoveFn(h) == [k |-> "remove", h |-> h, sig |-> "-", fn |-> "-"]
UnsubFn(s, l) == [k |-> "unsub", h |-> Undefined, sig |-> s, fn |-> l]

\* el.removeEventListener("click", h) for every removal closure of fns
RunRemovals(regs, fns) ==
  regs \ {fns[i].h : i \in {j \in DOMAIN fns : fns[j].k = "remove"}}

MountN(m) ==
  /\ InUserCode
  /\ ~mounts[m].made
  /\ LET c == Candidate
         evFns == IF Truthy(c) THEN <<RemoveFn(c)>> ELSE <<>>
     IN \* if (candidate) { el.addEventListener(evt, candidate); cleanupFns.push(...) }
        /\ evRegs' = IF Truthy(c) THEN evRegs \cup {c} ELSE evRegs
        \* const unsubscribe = s.subscribe?.(...); cleanupFns.push(unsubscribe)
        /\ mounts' = [mounts EXCEPT ![m] =
                        [made |-> TRUE,
                         fns |-> Append(evFns, UnsubFn(BoundSig, DomListener(m))),
                         ran |-> FALSE]]
  \* setDomProp(prop, s.value)
  /\ dom' = setDomProp(domProp, value[BoundSig])
  /\ listeners' = [listeners EXCEPT ![BoundSig] = SetAdd(@, DomListener(m))]
  /\ trace' = BaseTrace
  /\ last' = [Step("mountN") EXCEPT !.fn = m]
  /\ UNCHANGED <<value, batchDepth, pendingEffects, stack, exc, derivedVars,
                 mounted, cleanupFns, cleaned, domProp,
                 handlerName, elOwn, rootOwn, compilerVars, unsubscribes>>

\* the cleanup function returned by mount call m:
\* cleanupFns.forEach((fn) => fn())
CleanupN(m) ==
  /\ InUserCode
  /\ mounts[m].made
  /\ evRegs' = RunRemovals(evRegs, mounts[m].fns)
  /\ listeners' = RunUnsubs(listeners, mounts[m].fns)
  /\ mounts' = [mounts EXCEPT ![m].ran = TRUE]
  /\ trace' = BaseTrace
  /\ last' = [Step("cleanupN") EXCEPT !.fn = m]
  /\ UNCHANGED <<value, batchDepth, pendingEffects, stack, exc, derivedVars,
                 mounted, cleanupFns, cleaned, domProp, dom,
                 handlerName, elOwn, rootOwn, compilerVars, unsubscribes>>

RemountVals == {Null, One}
PairsRemount == {<<"t", "a">>}

InitRemount ==
  /\ domProp = "value"
  /\ \E p \in Pages :
       /\ handlerName = p[1]
       /\ elOwn = p[2]
       /\ rootOwn = p[3]
  /\ NoFile
  /\ InitCommon

NextRemount ==
  \/ \E v \in RemountVals : Write(BoundSig, v)
  \/ \E p \in PairsRemount : Subscribe(p[1], p[2])
  \/ \E p \in PairsRemount : Unsubscribe(p[1], p[2])
  \/ \E m \in MountIds : MountN(m)
  \/ \E m \in MountIds : CleanupN(m)
  \/ BatchEnter
  \/ BodyReturn
  \/ BodyThrow
  \/ Runtime

SpecRemount == InitRemount /\ [][NextRemount]_vars

----------------------------------------------------------------------------
(* The compiler: compile(), runA11yChecks(), transformReactivity() and     *)
(* generateSourceMap().  A file is a name, a source text and what the      *)
(* parser makes of that text: it throws, or it returns a tree, which may   *)
(* carry syntax diagnostics.  A text is a sequence of tokens, "\n" ends a  *)
(* line.  A position in a tree is the path that leads to it from the root. *)

NL == "\n"

\* name="text", name={text}, name={<inner />} or a bare name; the name is
\* local or ns:local
JsxAttribute(ns, local, init, text, inner) ==
  [k |-> "attr", ns |-> ns, local |-> local, init |-> init, text |-> text,
   inner |-> inner]
\* {...text}
JsxSpreadAttribute(text) ==
  [k |-> "spread", ns |-> "", local |-> "", init |-> "expr", text |-> text,
   inner |-> <<>>]
\* <tag attrs /> when sc, <tag attrs>kids</tag> otherwise
JsxElement(tag, sc, attrs, kids) ==
  [k |-> "el", tag |-> tag, sc |-> sc, attrs |-> attrs, kids |-> kids]
JsxText(t) == [k |-> "text", text |-> t]
\* a child {text <inner />}
JsxExpression(t, inner) == [k |-> "expr", text |-> t, inner |-> inner]

RECURSIVE Concat(_)
Concat(ss) == IF Len(ss) = 0 THEN <<>> ELSE Head(ss) \o Concat(Tail(ss))

\* prop.name.getText()
NameText(p) == IF p.ns = "" THEN p.local ELSE p.ns \o ":" \o p.local

\* the text of a node
RECURSIVE Emit(_)
Emit(n) ==
  CASE n.k = "el" ->
         <<"<", n.tag>>
           \o Concat([i \in 1..Len(n.attrs) |-> Emit(n.attrs[i])])
           \o (IF n.sc THEN <<"/>">>
               ELSE <<">">>
                      \o Concat([i \in 1..Len(n.kids) |-> Emit(n.kids[i])])
                      \o <<"</", n.tag, ">">>)
    [] n.k = "text" -> <<n.text>>
    [] n.k = "expr" ->
         <<"{", n.text>>
           \o Concat([i \in 1..Len(n.inner) |-> Emit(n.inner[i])]) \o <<"}">>
    [] n.k = "spread" -> <<"{...", n.text, "}">>
    [] n.k = "attr" ->
         <<NameText(n)>>
           \o (CASE n.init = "none" -> <<>>
                 [] n.init = "string" -> <<"=", "\"" \o n.text \o "\"">>
                 [] OTHER ->
                      <<"=", "{", n.text>>
                        \o Concat([i \in 1..Len(n.inner) |-> Emit(n.inner[i])])
                        \o <<"}">>)

\* node.getWidth(): of an element, the width of its opening tag
getWidth(n) ==
  IF n.k = "el" THEN Len(Emit([n EXCEPT !.sc = TRUE])) ELSE Len(Emit(n))

\* the module text that parses to root
SourceText(root) == <<"export default () => ">> \o Emit(root) \o <<";">>

\* printer.printFile(sf): the printer ends the file with a line break
printFile(sf) == <<"export default () => ">> \o Emit(sf.root) \o <<";", NL>>

\* text.split("\n").length
LineCount(text) == 1 + Cardinality({i \in DOMAIN text : text[i] = NL})

----------------------------------------------------------------------------
(* transformReactivity *)

DirectiveNamespaces == {"on", "class"}
\* name.startsWith("on:") || name.startsWith("class:")
IsDirective(p) == p.k = "attr" /\ p.ns \in DirectiveNamespaces

\* factory.createJsxAttribute(createIdentifier(`data-${ns}-${local}`),
\*   init && isJsxExpression(init) ? createJsxExpression(undefined, init.expression) : undefined)
runtimeAttr(p) ==
  IF p.init = "expr"
  THEN JsxAttribute("", "data-" \o p.ns \o "-" \o p.local, "expr", p.text, p.inner)
  ELSE JsxAttribute("", "data-" \o p.ns \o "-" \o p.local, "none", "", <<>>)

\* spread attributes are dropped
newAttrs_noSpread(props) ==
  LET kept == SelectSeq(props, LAMBDA p : p.k = "attr")
  IN [i \in 1..Len(kept) |-> IF IsDirective(kept[i]) THEN runtimeAttr(kept[i]) ELSE kept[i]]

\* the array newAttrs built by properties.forEach
newAttrs(props) ==
  [i \in 1..Len(props) |-> IF IsDirective(props[i]) THEN runtimeAttr(props[i]) ELSE props[i]]

\* visit: an opening or self-closing element gets new attributes and is not
\* descended into; every other node is rebuilt from its visited children
RECURSIVE visit(_)
visit(n) ==
  CASE n.k = "el" ->
         [n EXCEPT !.attrs = newAttrs(n.attrs),
                   !.kids = [i \in 1..Len(n.kids) |-> visit(n.kids[i])]]
    [] n.k = "expr" -> [n EXCEPT !.inner = [i \in 1..Len(n.inner) |-> visit(n.inner[i])]]
    [] OTHER -> n

DirectiveStringDiag(p, path, file) ==
  [code |-> "LYRA_DIRECTIVE_STRING",
   message |-> "Directive \"" \o NameText(p)
                 \o "\" should use an expression {value}, not a string literal \""
                 \o p.text \o "\". This will not work at runtime.",
   file |-> file,
   start |-> path,
   length |-> getWidth(p),
   severity |-> "warn"]

\* the diagnostics pushed while visiting, in visiting order
RECURSIVE visitDiagnostics(_, _, _)
visitDiagnostics(n, path, file) ==
  CASE n.k = "el" ->
         Concat([i \in 1..Len(n.attrs) |->
                   IF IsDirective(n.attrs[i]) /\ n.attrs[i].init = "string"
                   THEN <<DirectiveStringDiag(n.attrs[i], Append(path, <<"attr", i>>), file)>>
                   ELSE <<>>])
           \o Concat([i \in 1..Len(n.kids) |->
                        visitDiagnostics(n.kids[i], Append(path, <<"kid", i>>), file)])
    [] n.k = "expr" ->
         Concat([i \in 1..Len(n.inner) |->
                   visitDiagnostics(n.inner[i], Append(path, <<"in", i>>), file)])
    [] OTHER -> <<>>

\* filename is <<>> when the argument is left out: filename ?? sf.fileName
transformReactivity(sf, filename) ==
  LET file == IF filename = <<>> THEN sf.fileName ELSE filename[1]
  IN [fileName |-> sf.fileName,
      root |-> visit(sf.root),
      parseDiagnostics |-> sf.parseDiagnostics,
      lyra_diags |-> visitDiagnostics(sf.root, <<>>, file)]

----------------------------------------------------------------------------
(* runA11yChecks *)

\* p.initializer ? p.initializer.getText() : "", kept in three parts: the
\* opening quote or brace, the body, the closing quote or brace
InitText(p) ==
  CASE p.init = "none" -> [open |-> "", body |-> "", close |-> ""]
    [] p.init = "string" -> [open |-> "\"", body |-> p.text, close |-> "\""]
    [] OTHER -> [open |-> "{", body |-> p.text, close |-> "}"]

Flat(v) == v.open \o v.body \o v.close

\* val.replace(/^["']|["']$/g, "")
STRIP_QUOTES(v) ==
  (IF v.open \in {"\"", "'"} THEN "" ELSE v.open) \o v.body
    \o (IF v.close \in {"\"", "'"} THEN "" ELSE v.close)

\* tabindexRaw.replace(/^["'{]|[}"']$/g, "")
StripTabindex(v) ==
  (IF v.open \in {"\"", "'", "{"} THEN "" ELSE v.open) \o v.body
    \o (IF v.close \in {"\"", "'", "}"} THEN "" ELSE v.close)

\* Number(stripped) on the texts that occur
NumberOf(s) ==
  CASE s \in {"", "0"} -> [nan |-> FALSE, n |-> 0]
    [] s = "1" -> [nan |-> FALSE, n |-> 1]
    [] s = "2" -> [nan |-> FALSE, n |-> 2]
    [] s = "-1" -> [nan |-> FALSE, n |-> -1]
    [] OTHER -> [nan |-> TRUE, n |-> 0]

\* getAttributes(node): props.has(name)
Has(n, name) ==
  \E i \in DOMAIN n.attrs : n.attrs[i].k = "attr" /\ NameText(n.attrs[i]) = name

\* getAttributes(node): props.get(name); a later attribute of the same name
\* replaces an earlier one
Get(n, name) ==
  LET idx == {i \in DOMAIN n.attrs : n.attrs[i].k = "attr" /\ NameText(n.attrs[i]) = name}
      top == CHOOSE i \in idx : \A j \in idx : j <= i
  IN InitText(n.attrs[top])

\* child.text.trim() on the texts that occur
Trim(t) == IF t \in {" ", NL} THEN "" ELSE t

\* hasChildContent(element)
hasChildContent(n) ==
  \E i \in DOMAIN n.kids :
     \/ n.kids[i].k = "text" /\ Trim(n.kids[i].text) # ""
     \/ n.kids[i].k = "expr"
     \/ n.kids[i].k = "el"

\* /^h[1-6]$/
RE_HEADING == {"h1", "h2", "h3", "h4", "h5", "h6"}

\* props.get(name) of a name that is not in the map: undefined, which is
\* falsy like the empty text
NoValue == [open |-> "", body |-> "", close |-> ""]

\* the nodes below n that forEachChild reaches, with their paths, in
\* visiting order: attribute values first, then children
Below(n, path) ==
  CASE n.k = "el" ->
         Concat([i \in 1..Len(n.attrs) |->
                   [j \in 1..Len(n.attrs[i].inner) |->
                      <<n.attrs[i].inner[j], path \o <<<<"attr", i>>, <<"in", j>>>>>>]])
           \o [i \in 1..Len(n.kids) |-> <<n.kids[i], Append(path, <<"kid", i>>)>>]
    [] n.k = "expr" ->
         [i \in 1..Len(n.inner) |-> <<n.inner[i], Append(path, <<"in", i>>)>>]
    [] OTHER -> <<>>

\* collectLabelTargets(sf): the htmlFor / for values of all label elements
RECURSIVE labelTargetsOf(_, _)
labelTargetsOf(n, path) ==
  LET own ==
        IF n.k = "el" /\ n.tag = "label"
        THEN LET htmlFor ==
                   IF Has(n, "htmlFor") THEN Get(n, "htmlFor")
                   ELSE IF Has(n, "for") THEN Get(n, "for")
                   ELSE NoValue
             IN IF Flat(htmlFor) # "" THEN {STRIP_QUOTES(htmlFor)} ELSE {}
        ELSE {}
      below == Below(n, path)
  IN own \cup UNION {labelTargetsOf(below[i][1], below[i][2]) : i \in 1..Len(below)}

collectLabelTargets(sf) == labelTargetsOf(sf.root, <<>>)

\* every diagnostic is reported as an error
Severity_error(level) == "error"

\* const severity = level === "strict" ? "error" : "warn"
Severity(level) == IF level = "strict" THEN "error" ELSE "warn"

\* the diagnostics pushed for one opening or self-closing element
ElementDiagnostics(n, path, file, severity, labelTargets) ==
  LET tag == n.tag
      D(code, message) ==
        <<[code |-> code, message |-> message, file |-> file, start |-> path,
           length |-> getWidth(n), severity |-> severity]>>
      labelled == Has(n, "aria-label") \/ Has(n, "aria-labelledby")
      r1 == IF /\ tag \in {"input", "select", "textarea", "button"}
               /\ ~(labelled \/ Has(n, "title") \/ Has(n, "id"))
            THEN D("LYRA_A11Y_001", "Interactive <" \o tag \o "> lacks an accessible name (aria-label, aria-labelledby, title, or id).")
            ELSE <<>>
      r2 == IF tag = "img" /\ ~Has(n, "alt") /\ ~labelled
            THEN D("LYRA_A11Y_002", "<img> is missing an alt attribute. Images must have alternative text for accessibility.")
            ELSE <<>>
      r3 == IF tag = "button" /\ ~labelled /\ (n.sc \/ ~hasChildContent(n))
            THEN D("LYRA_A11Y_003", "<button> has no visible text or accessible label. Buttons must be labelled.")
            ELSE <<>>
      idValue == IF Has(n, "id") THEN STRIP_QUOTES(Get(n, "id")) ELSE ""
      r4 == IF /\ tag \in {"input", "select", "textarea"}
               /\ ~labelled
               /\ Has(n, "id")
               /\ idValue # ""
               /\ idValue \notin labelTargets
            THEN D("LYRA_A11Y_004", "<" \o tag \o "> with id=\"" \o idValue \o "\" has no associated <label htmlFor=\"" \o idValue \o "\">.")
            ELSE <<>>
      r5 == IF tag = "a" /\ ~Has(n, "href")
            THEN D("LYRA_A11Y_005", "<a> is missing an href attribute. Anchors without href are not keyboard-accessible.")
            ELSE <<>>
      tabindexRaw ==
        IF Has(n, "tabIndex") THEN Get(n, "tabIndex")
        ELSE IF Has(n, "tabindex") THEN Get(n, "tabindex")
        ELSE NoValue
      stripped == StripTabindex(tabindexRaw)
      num == NumberOf(stripped)
      r6 == IF Flat(tabindexRaw) # "" /\ ~num.nan /\ num.n > 0
            THEN D("LYRA_A11Y_006", "tabindex=\"" \o stripped \o "\" is greater than 0. Positive tabindex values disrupt natural tab order.")
            ELSE <<>>
      r7 == IF ~n.sc /\ tag \in RE_HEADING /\ ~labelled /\ ~hasChildContent(n)
            THEN D("LYRA_A11Y_007", "<" \o tag \o "> is empty. Headings must have text content for screen readers.")
            ELSE <<>>
      r8 == IF tag = "iframe" /\ ~Has(n, "title") /\ ~labelled
            THEN D("LYRA_A11Y_008", "<iframe> is missing a title attribute. Frames must have a title for accessibility.")
            ELSE <<>>
  IN r1 \o r2 \o r3 \o r4 \o r5 \o r6 \o r7 \o r8

\* the function `visit` of runA11yChecks
RECURSIVE a11yVisit(_, _, _, _, _)
a11yVisit(n, path, file, severity, labelTargets) ==
  LET below == Below(n, path)
  IN (IF n.k = "el" THEN ElementDiagnostics(n, path, file, severity, labelTargets)
      ELSE <<>>)
       \o Concat([i \in 1..Len(below) |->
                    a11yVisit(below[i][1], below[i][2], file, severity, labelTargets)])

runA11yChecks(sf, filename, level) ==
  IF level = "off" THEN <<>>
  ELSE a11yVisit(sf.root, <<>>, filename, Severity(level), collectLabelTargets(sf))

----------------------------------------------------------------------------
(* generateSourceMap *)

VLQ_CHARS ==
  <<"A", "B", "C", "D", "E", "F", "G", "H", "I", "J", "K", "L", "M", "N", "O", "P",
    "Q", "R", "S", "T", "U", "V", "W", "X", "Y", "Z", "a", "b", "c", "d", "e", "f",
    "g", "h", "i", "j", "k", "l", "m", "n", "o", "p", "q", "r", "s", "t", "u", "v",
    "w", "x", "y", "z", "0", "1", "2", "3", "4", "5", "6", "7", "8", "9", "+", "/">>

\* the do-while loop of vlqEncode: digit = vlq & 0x1f; vlq >>>= 5;
\* if (vlq > 0) digit |= 0x20; encoded += VLQ_CHARS[digit]
RECURSIVE vlqDigits(_)
vlqDigits(vlq) ==
  LET digit == vlq % 32
      rest == vlq \div 32
  IN IF rest > 0 THEN <<VLQ_CHARS[digit + 32 + 1]>> \o vlqDigits(rest)
     ELSE <<VLQ_CHARS[digit + 1]>>

\* the sign bit is left out
vlqEncode_unsigned(v) == vlqDigits(IF v < 0 THEN -v ELSE v)

\* let vlq = value < 0 ? (-value << 1) + 1 : value << 1
vlqEncode(v) == vlqDigits(IF v < 0 THEN (-v) * 2 + 1 ELSE v * 2)

\* the loop over the output lines, from line i on
RECURSIVE segmentsFrom(_, _, _, _)
segmentsFrom(i, prevSourceLine, outputLines, linesToMap) ==
  IF i >= outputLines THEN <<>>
  ELSE IF i < linesToMap
       THEN <<vlqEncode(0) \o vlqEncode(0) \o vlqEncode(i - prevSourceLine) \o vlqEncode(0)>>
              \o segmentsFrom(i + 1, i, outputLines, linesToMap)
       ELSE <<<<>>>> \o segmentsFrom(i + 1, prevSourceLine, outputLines, linesToMap)

\* the segments are put together without a separator
Join_plain(segments) == Concat(segments)

\* segments.join(";")
RECURSIVE Join(_)
Join(segments) ==
  IF Len(segments) = 0 THEN <<>>
  ELSE IF Len(segments) = 1 THEN segments[1]
  ELSE segments[1] \o <<";">> \o Join(Tail(segments))

Min(a, b) == IF a < b THEN a ELSE b

\* filename.replace(/\.lyra\.tsx$/, ".tsx")
OutputName(filename) ==
  IF filename.ext = ".lyra.tsx" THEN [filename EXCEPT !.ext = ".tsx"] ELSE filename

generateSourceMap(filename, source, outputCode) ==
  LET inputLines == LineCount(source)
      outputLines == LineCount(outputCode)
      linesToMap == Min(inputLines, outputLines)
  IN [version |-> 3,
      file |-> OutputName(filename),
      sources |-> <<filename>>,
      sourcesContent |-> <<source>>,
      mappings |-> Join(segmentsFrom(0, 0, outputLines, linesToMap))]

----------------------------------------------------------------------------
(* compile *)

\* err instanceof Error ? err.message : "Failed to parse source file"
ErrMessage_raw(err) == err.message

ErrMessage(err) ==
  IF err.isError THEN err.message ELSE "Failed to parse source file"

\* the diagnostic pushed for a parser diagnostic d
FromParseDiagnostic_plain(d, filename) ==
  [code |-> ToString(d.code), message |-> d.messageText, file |-> filename,
   start |-> d.start, length |-> d.length, severity |-> "error"]

FromParseDiagnostic(d, filename) ==
  [code |-> "TS" \o ToString(d.code), message |-> d.messageText, file |-> filename,
   start |-> d.start, length |-> d.length, severity |-> "error"]

\* every diagnostic is counted
CountErrors_all(diags) == Len(diags)

\* diags.filter((d) => d.severity === "error").length
CountErrors(diags) == Cardinality({i \in DOMAIN diags : diags[i].severity = "error"})

\* the transformer's diagnostics are put first
Collected_swapped(a11y, directive) == directive \o a11y

\* diags.push(...runA11yChecks(...)); ...; diags.push(...transformed._lyra_diags)
Collected(a11y, directive) == a11y \o directive

Meta(a11yErrors, transformed) ==
  [symbols |-> <<>>, islands |-> FALSE, a11yErrors |-> a11yErrors,
   transformed |-> transformed]

\* options.parse is what _parse(filename, source) does; map is <<>> for null
compile(options) ==
  LET filename == options.filename
      source == options.source
      shouldGenerateMap ==
        IF options.generateSourceMap = "undefined" THEN FALSE
        ELSE options.generateSourceMap = "true"
      a11yLevel ==
        IF options.a11yLevel = "undefined" THEN "strict" ELSE options.a11yLevel
      parse == options.parse
  IN IF parse.k = "throw"
     THEN [code |-> source,
           map |-> <<>>,
           diagnostics |-> <<[code |-> "LYRA_PARSE_ERROR", message |-> ErrMessage(parse),
                              file |-> filename, severity |-> "error"]>>,
           meta |-> Meta(1, FALSE)]
     ELSE IF Len(parse.sf.parseDiagnostics) > 0
     THEN LET diags == [i \in 1..Len(parse.sf.parseDiagnostics) |->
                          FromParseDiagnostic(parse.sf.parseDiagnostics[i], filename)]
          IN [code |-> source,
              map |-> <<>>,
              diagnostics |-> diags,
              meta |-> Meta(CountErrors(diags), FALSE)]
     ELSE LET transformed == transformReactivity(parse.sf, <<filename>>)
              code == printFile(transformed)
              diags == Collected(runA11yChecks(parse.sf, filename, a11yLevel),
                                 transformed.lyra_diags)
          IN [code |-> code,
              map |-> IF shouldGenerateMap
                      THEN <<generateSourceMap(filename, source, code)>>
                      ELSE <<>>,
              diagnostics |-> diags,
              meta |-> Meta(CountErrors(diags), TRUE)]

----------------------------------------------------------------------------
(* The files compiled *)

Filename == [stem |-> "x", ext |-> ".lyra.tsx"]

onExpr == JsxAttribute("on", "click", "expr", "fn", <<>>)
onString == JsxAttribute("on", "click", "string", "handleClick", <<>>)
onBare == JsxAttribute("on", "click", "none", "", <<>>)
classExpr == JsxAttribute("class", "done", "expr", "x", <<>>)
classString == JsxAttribute("class", "active", "string", "isActive", <<>>)
Directives == {onExpr, onString, onBare, classExpr, classString}
Plain ==
  {JsxSpreadAttribute("props"),
   JsxAttribute("", "id", "string", "x", <<>>),
   JsxAttribute("", "aria-label", "string", "n", <<>>),
   JsxAttribute("", "tabIndex", "expr", "1", <<>>)}
AttrLists ==
  {<<>>} \cup {<<a>> : a \in Directives \cup Plain}
    \cup {<<a, b>> : a \in Directives, b \in Plain}
    \cup {<<b, a>> : a \in Directives, b \in Plain}
    \cup {<<onExpr, classString>>, <<onString, onString>>}
Tags == {"button", "input", "img", "a", "h1", "iframe", "label", "div"}
KidLists == {<<>>, <<JsxText(" ")>>, <<JsxText("Go")>>}

\* elements without elements inside
Leaves ==
  {JsxElement(t, TRUE, as, <<>>) : t \in Tags, as \in AttrLists}
    \cup {JsxElement(t, FALSE, as, ks) : t \in Tags, as \in AttrLists, ks \in KidLists}

\* a label and a form control side by side, in either order: the label
\* names its target with htmlFor, with for, with an expression, or not at
\* all; the control has an id (a text, the empty text, no value), an id and
\* an aria-label, or no id
LabelRoots ==
  LET Id(init, text) == JsxAttribute("", "id", init, text, <<>>)
      labels ==
        {JsxElement("label", FALSE, as, <<JsxText("Go")>>) :
           as \in {<<>>,
                   <<JsxAttribute("", "htmlFor", "string", "x", <<>>)>>,
                   <<JsxAttribute("", "for", "string", "x", <<>>)>>,
                   <<JsxAttribute("", "htmlFor", "expr", "x", <<>>)>>}}
      controls ==
        {JsxElement(t, TRUE, as, <<>>) :
           t \in {"input", "select", "textarea"},
           as \in {<<>>,
                   <<Id("string", "x")>>,
                   <<Id("string", "y")>>,
                   <<Id("string", "")>>,
                   <<Id("none", "")>>,
                   <<Id("expr", "x")>>,
                   <<Id("string", "x"), JsxAttribute("", "aria-label", "string", "n", <<>>)>>}}
  IN {JsxElement("div", FALSE, <<>>, <<l, c>>) : l \in labels, c \in controls}
       \cup {JsxElement("div", FALSE, <<>>, <<c, l>>) : l \in labels, c \in controls}

\* a leaf alone, as a child, inside a child expression, and inside the
\* value expression of an attribute
Roots ==
  Leaves
    \cup LabelRoots
    \cup {JsxElement("div", FALSE, <<>>, <<l>>) : l \in Leaves}
    \cup {JsxElement("div", FALSE, <<>>, <<JsxExpression("ok && ", <<l>>)>>) : l \in Leaves}
    \cup {JsxElement("div", TRUE, <<JsxAttribute("", "render", "expr", "", <<l>>)>>, <<>>) :
            l \in Leaves}

\* what the parser reports for a text it cannot parse
ParseDiagnosticPool ==
  {[code |-> 1005, messageText |-> "'}' expected.", start |-> 27, length |-> 1],
   [code |-> 1109, messageText |-> "Expression expected.", start |-> 5, length |-> 0]}
ParseDiagnosticLists ==
  {<<d>> : d \in ParseDiagnosticPool}
    \cup {<<d, e>> : d \in ParseDiagnosticPool, e \in ParseDiagnosticPool}

\* new Error("boom"), the string "Some string error", the object { message: "m" }
Thrown ==
  {[k |-> "throw", isError |-> TRUE, message |-> "boom"],
   [k |-> "throw", isError |-> FALSE, message |-> "undefined"],
   [k |-> "throw", isError |-> FALSE, message |-> "m"]}

\* the tree the parser recovers from the broken text
BrokenRoot == JsxElement("button", TRUE, <<onString>>, <<>>)
BrokenSource == <<"export default () => ">> \o Emit(BrokenRoot) \o <<"}">>

SourceFile(root, parseDiagnostics) ==
  [fileName |-> Filename, root |-> root, parseDiagnostics |-> parseDiagnostics]

Files ==
  {[filename |-> Filename, source |-> SourceText(r),
    parse |-> [k |-> "sf", sf |-> SourceFile(r, <<>>)]] : r \in Roots}
    \cup {[filename |-> Filename, source |-> BrokenSource,
           parse |-> [k |-> "sf", sf |-> SourceFile(BrokenRoot, pd)]] :
            pd \in ParseDiagnosticLists}
    \cup {[filename |-> Filename, source |-> BrokenSource, parse |-> e] : e \in Thrown}

Levels == {"strict", "warn", "off"}

\* user code calls compile(options)
Compile(level, genMap) ==
  /\ called = <<>>
  /\ called' = <<[fn |-> "compile", a11yLevel |-> level, generateSourceMap |-> genMap]>>
  /\ returned' = <<compile([filename |-> srcFile.filename, source |-> srcFile.source,
                       a11yLevel |-> level, generateSourceMap |-> genMap,
                       parse |-> srcFile.parse])>>
  /\ UNCHANGED <<srcFile, runtimeVars>>

\* user code calls runA11yChecks(sf, filename, level) on the parsed tree
RunA11yChecks(level) ==
  /\ called = <<>>
  /\ srcFile.parse.k = "sf"
  /\ called' = <<[fn |-> "runA11yChecks", a11yLevel |-> level, generateSourceMap |-> "undefined"]>>
  /\ returned' = <<runA11yChecks(srcFile.parse.sf, srcFile.filename, level)>>
  /\ UNCHANGED <<srcFile, runtimeVars>>

\* user code runs transformReactivity over the parsed tree
TransformReactivity(filename) ==
  /\ called = <<>>
  /\ srcFile.parse.k = "sf"
  /\ called' = <<[fn |-> "transformReactivity", a11yLevel |-> "undefined", generateSourceMap |-> "undefined"]>>
  /\ returned' = <<transformReactivity(srcFile.parse.sf, filename)>>
  /\ UNCHANGED <<srcFile, runtimeVars>>

InitCompiler ==
  /\ domProp = "value"
  /\ NoHandler
  /\ InitCommon
  /\ srcFile \in Files
  /\ called = <<>>
  /\ returned = <<>>

NextCompiler ==
  \/ \E level \in Levels \cup {"undefined"}, genMap \in {"true", "false", "undefined"} :
       Compile(level, genMap)
  \/ \E level \in Levels : RunA11yChecks(level)
  \/ \E filename \in {<<>>, <<srcFile.filename>>} : TransformReactivity(filename)

SpecCompiler == InitCompiler /\ [][NextCompiler]_vars

----------------------------------------------------------------------------
(* generateSourceMap on texts of any number of lines *)

MaxTextLen == 4

\* the texts of up to MaxTextLen pieces, each a character or a line break
Texts == UNION {[1..n -> {"a", NL}] : n \in 0..MaxTextLen}

Filenames == {Filename, [stem |-> "x", ext |-> ".tsx"]}

\* user code calls generateSourceMap(filename, source, outputCode)
GenerateSourceMap ==
  /\ called = <<>>
  /\ called' = <<[fn |-> "generateSourceMap", a11yLevel |-> "undefined",
                  generateSourceMap |-> "undefined"]>>
  /\ returned' = <<generateSourceMap(srcFile.filename, srcFile.source, srcFile.outputCode)>>
  /\ UNCHANGED <<srcFile, runtimeVars>>

InitSourceMap ==
  /\ domProp = "value"
  /\ NoHandler
  /\ InitCommon
  /\ srcFile \in [filename : Filenames, source : Texts, outputCode : Texts]
  /\ called = <<>>
  /\ returned = <<>>

NextSourceMap == GenerateSourceMap

SpecSourceMap == InitSourceMap /\ [][NextSourceMap]_vars

----------------------------------------------------------------------------
(* formatCodeFrame *)

Max(a, b) == IF a > b THEN a ELSE b

\* text.split(sep)
RECURSIVE Split(_, _)
Split(text, sep) ==
  LET cut == {i \in DOMAIN text : text[i] = sep}
  IN IF cut = {} THEN <<text>>
     ELSE LET c == CHOOSE i \in cut : \A j \in cut : i <= j
          IN <<SubSeq(text, 1, c - 1)>> \o Split(SubSeq(text, c + 1, Len(text)), sep)

\* the loop of offsetToLineColumn over source[0 .. min(offset, length) - 1]:
\* a line break starts a new line at column 1, any other character moves
\* one column on
offsetToLineColumn(source, offset) ==
  LET n == Min(Max(offset, 0), Len(source))
      breaks == {i \in 1..n : source[i] = NL}
      lastBreak == IF breaks = {} THEN 0 ELSE CHOOSE i \in breaks : \A j \in breaks : j <= i
  IN [line |-> 1 + Cardinality(breaks), column |-> 1 + (n - lastBreak)]

\* String(n) for n >= 0, one piece per digit
RECURSIVE StringOf(_)
StringOf(n) ==
  IF n < 10 THEN <<ToString(n)>> ELSE StringOf(n \div 10) \o <<ToString(n % 10)>>

\* c.repeat(n)
Repeat(c, n) == [i \in 1..n |-> c]

\* s.padStart(width, " ")
padStart(str, width) == Repeat(" ", width - Len(str)) \o str

\* result.join("\n")
RECURSIVE JoinLines(_)
JoinLines(result) ==
  IF Len(result) = 0 THEN <<>>
  ELSE IF Len(result) = 1 THEN result[1]
  ELSE result[1] \o <<NL>> \o JoinLines(Tail(result))

formatCodeFrame(source, start, length, contextLines) ==
  LET lines == Split(source, NL)
      pos == offsetToLineColumn(source, start)
      targetLine == pos.line - 1
      startLine == Max(0, targetLine - contextLines)
      endLine == Min(Len(lines) - 1, targetLine + contextLines)
      gutterWidth == Len(StringOf(endLine + 1))
      pushed(i) ==
        LET lineNum == padStart(StringOf(i + 1), gutterWidth)
            prefix == IF i = targetLine THEN <<">", " ">> ELSE <<" ", " ">>
            underlineStart == pos.column - 1
            underlineLen == Min(length, Len(lines[i + 1]) - underlineStart)
            padding == Repeat(" ", gutterWidth + 3 + underlineStart)
        IN <<prefix \o lineNum \o <<" ", "|", " ">> \o lines[i + 1]>>
             \o (IF i = targetLine
                 THEN <<padding \o Repeat("^", Max(1, underlineLen))>>
                 ELSE <<>>)
  IN JoinLines(Concat([k \in 1..(endLine - startLine + 1) |-> pushed(startLine + k - 1)]))

\* user code calls formatCodeFrame(source, start, length, contextLines)
FormatCodeFrame ==
  /\ called = <<>>
  /\ called' = <<[fn |-> "formatCodeFrame", a11yLevel |-> "undefined",
                  generateSourceMap |-> "undefined"]>>
  /\ returned' = <<formatCodeFrame(srcFile.source, srcFile.start, srcFile.length,
                                   srcFile.contextLines)>>
  /\ UNCHANGED <<srcFile, runtimeVars>>

InitCodeFrame ==
  /\ domProp = "value"
  /\ NoHandler
  /\ InitCommon
  /\ srcFile \in [source : Texts, start : 0..(MaxTextLen + 1), length : 0..(MaxTextLen + 1),
                   contextLines : 0..2]
  /\ called = <<>>
  /\ returned = <<>>

NextCodeFrame == FormatCodeFrame

SpecCodeFrame == InitCodeFrame /\ [][NextCodeFrame]_vars

----------------------------------------------------------------------------
(* What a trace shows *)

\* the write event with the given id
WriteOf(tr, id) == tr[CHOOSE i \in Writes(tr) : tr[i].id = id]
HasWrite(tr, id) == \E i \in Writes(tr) : tr[i].id = id
\* the calls of listener l made for write id
CallsFor(tr, id, l) == {i \in Calls(tr) : tr[i].id = id /\ tr[i].fn = l}
FlushCalls(tr) == {i \in Calls(tr) : tr[i].src = "flush"}
BodyOnStack == \E i \in DOMAIN stack : stack[i].k = "body"
\* the step ended a batch call whose flush ran to its end
OutermostBatchDone ==
  last.op \in {"batchReturn", "batchThrow"} /\ last.fn = "flushed"

----------------------------------------------------------------------------
(* Claims on signal() and batch() *)

\* C1: a write of a value that is Object.is-equal to the stored value (NaN
\* equals NaN, +0 and -0 differ) is a no-op inside and outside a batch: the
\* stored value is unchanged, nothing is appended to the pending queue and
\* the setter starts no notification of its listeners.
C1_EqualWriteIsNoOp ==
  (last.set.on /\ last.set.old = last.set.v) =>
    /\ value[last.set.sig] = last.set.old
    /\ Len(pendingEffects) = last.set.q
    /\ Len(stack) = last.set.sl
    /\ ~exc

\* NaN is written over NaN inside a batch, to a signal that has listeners
C1_Witness ==
  /\ last.set.on
  /\ last.set.old = NaN
  /\ last.set.v = NaN
  /\ last.set.d > 0
  /\ listeners[last.set.sig] # <<>>

\* C2: no listener is invoked while the batch depth is greater than 0; the
\* return of an inner batch delivers nothing, the queue is kept until the
\* outermost batch call ends; a value-changing write outside any batch has
\* invoked every subscribed listener, with the written value, when it
\* returns.
C2_DeferredUntilOutermost ==
  /\ \A i \in Calls(trace) : trace[i].d = 0
  /\ BodyOnStack => Calls(trace) = {}
  /\ (last.set.on /\ last.set.old # last.set.v /\ last.set.d > 0) =>
        /\ Len(stack) = last.set.sl
        /\ Len(pendingEffects) = last.set.q + Len(listeners[last.set.sig])
  /\ (last.op = "writeReturn") =>
        LET wr == WriteOf(trace, last.w)
        IN /\ wr.d = 0
           /\ \A l \in Range(wr.subs) :
                \E i \in CallsFor(trace, wr.id, l) :
                  trace[i].v = wr.v /\ trace[i].src = "notify"

\* an inner batch has returned and the notifications it queued are pending
C2_Witness ==
  /\ last.op = "batchReturn"
  /\ batchDepth > 0
  /\ pendingEffects # <<>>

\* C3: the flush delivers in the order of the writes: of two notifications
\* queued in the batch the one of the earlier write is delivered first, and
\* the flush runs only after the body of the outermost batch has returned.
C3_FlushIsFifo ==
  /\ \A i, j \in FlushCalls(trace) : i < j => trace[i].id <= trace[j].id
  /\ FlushCalls(trace) # {} => ~BodyOnStack /\ batchDepth = 0

\* the listener of a has been flushed before the listener of b, for two
\* writes of one batch
C3_Witness ==
  \E i, j \in FlushCalls(trace) :
    /\ i < j
    /\ trace[i].id < trace[j].id
    /\ trace[i].sig = "a"
    /\ trace[j].sig = "b"

C5_ReentrantOrder ==
  /\ \A i, j \in Calls(trace) :
       (i < j /\ trace[i].fn = trace[j].fn /\ trace[i].sig = trace[j].sig)
         => trace[i].id < trace[j].id
  /\ (stack = <<>> /\ ~exc /\ last.op = "writeReturn") =>
       \A i \in Calls(trace) :
         (\A j \in Calls(trace) :
            (trace[j].fn = trace[i].fn /\ trace[j].sig = trace[i].sig) => j <= i)
           => trace[i].v = value[trace[i].sig]

\* C6: when the outermost batch has finished, each subscriber of a signal
\* has been notified at most once for that signal, however many values the
\* body wrote to it.
C6_Coalesced ==
  OutermostBatchDone =>
    \A i, j \in FlushCalls(trace) :
      (trace[i].fn = trace[j].fn /\ trace[i].sig = trace[j].sig) => i = j

\* C7: a batch call that throws leaves the depth counter at the value it had
\* before the call and the exception propagates to its caller, at every
\* nesting depth; once control is back at top level the depth is 0.
C7_ThrowRestoresDepth ==
  /\ last.op = "batchThrow" => batchDepth = last.entry /\ exc
  /\ stack = <<>> => batchDepth = 0

\* the body of a nested batch has thrown
C7_Witness ==
  /\ last.op = "batchThrow"
  /\ last.entry = 1
  /\ last.fn # "aborted"

----------------------------------------------------------------------------
(* Claims on computed(), effect() and mount() *)

\* the step is the return of a value-changing write: a deferred write
\* returns at once, a write at depth 0 when it has notified its listeners
WriteReturned ==
  \/ last.op = "writeReturn"
  \/ last.op = "write" /\ last.set.old # last.set.v /\ last.set.d > 0
WrittenSig ==
  IF last.op = "writeReturn" THEN WriteOf(trace, last.w).sig ELSE last.set.sig

C9_DisposerStopsEffect ==
  /\ \A i \in Calls(trace) :
       Kind(trace[i].fn) = "effect" =>
         /\ i + 1 \in DOMAIN trace
         /\ trace[i + 1].t = "run"
  /\ last.op = "effect" =>
       /\ ~exc
       /\ unsubs = <<[sig |-> "a", fn |-> "eA"], [sig |-> "b", fn |-> "eB"]>>
  /\ (last.op = "call" /\ Kind(last.fn) = "effect") => ~disposed

\* C10: mount has applied the signal's value to the DOM property when it
\* returns; between mount and cleanup every value-changing write to the
\* signal is passed to the binding, which applies it to the DOM property; a
\* write made after cleanup is never passed to the binding.
C10_MountBinding ==
  /\ last.op = "mount" => dom = setDomProp(domProp, value[BoundSig])
  /\ (last.op = "call" /\ last.fn = "dom")
       => dom = setDomProp(domProp, WriteOf(trace, last.w).v)
  /\ \A k \in Writes(trace) :
       trace[k].sig = BoundSig =>
         /\ trace[k].m => "dom" \in Range(trace[k].subs)
         /\ ~trace[k].m => CallsFor(trace, trace[k].id, "dom") = {}
         /\ (trace[k].m /\ trace[k].d > 0 /\ OutermostBatchDone)
              => CallsFor(trace, trace[k].id, "dom") # {}
  /\ (last.op = "writeReturn" /\ WriteOf(trace, last.w).sig = BoundSig
        /\ WriteOf(trace, last.w).m)
       => CallsFor(trace, last.w, "dom") # {}

\* after mount and cleanup a write has returned and the DOM property, which
\* had followed the signal, has not followed this write
C10_Witness ==
  /\ mounted
  /\ cleaned
  /\ last.op = "writeReturn"
  /\ stack = <<>>
  /\ dom # DomDefault(domProp)
  /\ dom # setDomProp(domProp, value[BoundSig])

----------------------------------------------------------------------------
(* Claims on repeated mount and cleanup *)

\* C11: invoking the cleanup function returned by a mount call a second or
\* later time is a no-op, whatever happened in between (writes, batches,
\* further mount calls on the same root): the element's event listener list
\* and every signal's listener set are left as they were.
C11_LaterCleanupIsNoOp ==
  [][\A m \in MountIds :
       (mounts[m].ran /\ CleanupN(m)) =>
          (evRegs' = evRegs /\ listeners' = listeners)]_vars

\* a function is found under handlerName, on the element or on root
Found ==
  /\ handlerName \notin UNSAFE_KEYS
  /\ (elOwn = "function" \/ rootOwn = "function")
\* the function the lookup order selects: the element's wins
Winner ==
  IF elOwn = "function" THEN OwnValue("el", "function")
  ELSE OwnValue("root", "function")
Removals(m) ==
  {i \in DOMAIN mounts[m].fns : mounts[m].fns[i].k = "remove"}

\* C12: after mount, a click listener is attached and its removal recorded
\* exactly when a function is found under handlerName on the element or,
\* failing that, on root; the element's function wins; when no function is
\* found nothing is attached and nothing recorded; __proto__, constructor
\* and prototype are never found.
C12_HandlerOnlyIfFunction ==
  \A m \in MountIds :
    (last.op = "mountN" /\ last.fn = m) =>
       IF Found
       THEN /\ Winner \in evRegs
            /\ evRegs \subseteq {Winner}
            /\ Cardinality(Removals(m)) = 1
            /\ \A i \in Removals(m) : mounts[m].fns[i].h = Winner
       ELSE /\ evRegs = {}
            /\ Removals(m) = {}

----------------------------------------------------------------------------
(* Claims on compile() *)

CompileCalled == called # <<>> /\ called[1].fn = "compile"
\* the parser threw / reported syntax diagnostics / returned a clean tree
ParserThrew == srcFile.parse.k = "throw"
ParserReported == srcFile.parse.k = "sf" /\ Len(srcFile.parse.sf.parseDiagnostics) > 0
ParserClean == srcFile.parse.k = "sf" /\ Len(srcFile.parse.sf.parseDiagnostics) = 0

\* C13: when the parser throws, compile returns normally: code is the input
\* source, map is null, meta.transformed is false, and there is exactly one
\* diagnostic, LYRA_PARSE_ERROR with severity error, whose message is the
\* thrown Error's message, or "Failed to parse source file" when the thrown
\* value is not an Error; the analyzer and the transformer add nothing.
C13_ParserThrows ==
  (CompileCalled /\ ParserThrew) =>
     /\ Len(returned) = 1
     /\ returned[1].code = srcFile.source
     /\ returned[1].map = <<>>
     /\ returned[1].meta.transformed = FALSE
     /\ Len(returned[1].diagnostics) = 1
     /\ returned[1].diagnostics[1].code = "LYRA_PARSE_ERROR"
     /\ returned[1].diagnostics[1].severity = "error"
     /\ returned[1].diagnostics[1].message =
          IF srcFile.parse.isError THEN srcFile.parse.message
          ELSE "Failed to parse source file"

\* compile was called on a text whose parser throws an object that is not an
\* Error and has a message property
C13_Witness ==
  /\ CompileCalled
  /\ ParserThrew
  /\ ~srcFile.parse.isError
  /\ srcFile.parse.message = "m"
  /\ Len(returned) = 1

\* C14: when the tree carries parser diagnostics, compile returns one error
\* diagnostic per parser diagnostic, in the same order, with code "TS" and
\* the parser's number and the parser's start and length; code is the input
\* source, map is null and meta.transformed is false, also when a source
\* map was requested; no analyzer or directive diagnostic is added.
C14_SyntaxDiagnostics ==
  (CompileCalled /\ ParserReported) =>
     LET pd == srcFile.parse.sf.parseDiagnostics
         ds == returned[1].diagnostics
     IN /\ Len(ds) = Len(pd)
        /\ \A i \in 1..Len(pd) :
             /\ ds[i].code = "TS" \o ToString(pd[i].code)
             /\ ds[i].start = pd[i].start
             /\ ds[i].length = pd[i].length
             /\ ds[i].severity = "error"
        /\ returned[1].code = srcFile.source
        /\ returned[1].map = <<>>
        /\ returned[1].meta.transformed = FALSE

\* two different parser diagnostics, a source map requested, and a tree that
\* would draw analyzer and directive diagnostics
C14_Witness ==
  /\ CompileCalled
  /\ ParserReported
  /\ called[1].generateSourceMap = "true"
  /\ called[1].a11yLevel = "strict"
  /\ Len(srcFile.parse.sf.parseDiagnostics) = 2
  /\ srcFile.parse.sf.parseDiagnostics[1].code # srcFile.parse.sf.parseDiagnostics[2].code
  /\ runA11yChecks(srcFile.parse.sf, srcFile.filename, "strict") # <<>>
  /\ transformReactivity(srcFile.parse.sf, <<>>).lyra_diags # <<>>

\* the level the analyzer runs at: a11yLevel, strict when left out
LevelUsed == IF called[1].a11yLevel = "undefined" THEN "strict" ELSE called[1].a11yLevel

C16_ErrorCount ==
  CompileCalled =>
     returned[1].meta.a11yErrors =
       Cardinality({i \in DOMAIN returned[1].diagnostics :
                      returned[1].diagnostics[i].severity = "error"})

\* a successful compile that returns both errors and warnings
C16_Witness ==
  /\ CompileCalled
  /\ ParserClean
  /\ returned[1].meta.a11yErrors >= 1
  /\ returned[1].meta.a11yErrors < Len(returned[1].diagnostics)

----------------------------------------------------------------------------
(* Claims on transformReactivity() and runA11yChecks() *)

TransformCalled == called # <<>> /\ called[1].fn = "transformReactivity"
A11yCalled == called # <<>> /\ called[1].fn = "runA11yChecks"

\* some element of the tree under n, n included, at any depth and also
\* inside attribute values, carries an on: or class: attribute
RECURSIVE DirectiveLeft(_)
DirectiveLeft(n) ==
  \/ n.k = "el" /\ \E i \in DOMAIN n.attrs : IsDirective(n.attrs[i])
  \/ LET below == Below(n, <<>>)
     IN \E i \in 1..Len(below) : DirectiveLeft(below[i][1])

\* the name that replaces a directive name
RuntimeName(p) ==
  IF p.ns = "on" THEN "data-on-" \o p.local ELSE "data-class-" \o p.local

\* out is in with its directive attributes replaced, position by position;
\* with deep, the same holds of the elements inside attribute values,
\* without it attribute values are the same
RECURSIVE Rewritten(_, _, _)
SameInner(p, q, deep) ==
  IF deep
  THEN /\ Len(q.inner) = Len(p.inner)
       /\ \A j \in 1..Len(p.inner) : Rewritten(p.inner[j], q.inner[j], deep)
  ELSE q.inner = p.inner
AttrRewritten(p, q, deep) ==
  IF IsDirective(p)
  THEN /\ q.k = "attr"
       /\ NameText(q) = RuntimeName(p)
       /\ p.init = "expr" => (q.init = "expr" /\ q.text = p.text /\ SameInner(p, q, deep))
       /\ p.init = "none" => q.init = "none"
  ELSE /\ q.k = p.k
       /\ NameText(q) = NameText(p)
       /\ q.init = p.init
       /\ q.text = p.text
       /\ SameInner(p, q, deep)
Rewritten(in, out, deep) ==
  CASE in.k = "el" ->
         /\ out.k = "el"
         /\ out.tag = in.tag
         /\ out.sc = in.sc
         /\ Len(out.attrs) = Len(in.attrs)
         /\ \A i \in 1..Len(in.attrs) : AttrRewritten(in.attrs[i], out.attrs[i], deep)
         /\ Len(out.kids) = Len(in.kids)
         /\ \A i \in 1..Len(in.kids) : Rewritten(in.kids[i], out.kids[i], deep)
    [] in.k = "expr" ->
         /\ out.k = "expr"
         /\ out.text = in.text
         /\ Len(out.inner) = Len(in.inner)
         /\ \A i \in 1..Len(in.inner) : Rewritten(in.inner[i], out.inner[i], deep)
    [] OTHER -> out = in

\* C17: after the transform no element of the output tree, at any depth and
\* also inside child expressions and attribute value expressions, carries an
\* attribute whose name starts with on: or class:; each has been replaced
\* by data-on-<event> or data-class-<name> with the same expression.
C17_NoDirectiveLeft ==
  TransformCalled =>
     /\ ~DirectiveLeft(returned[1].root)
     /\ Rewritten(srcFile.parse.sf.root, returned[1].root, TRUE)

\* C18: for every element the transform visits, the output attribute list
\* has the length and order of the input list: a directive is replaced in
\* place by data-on-<event> or data-class-<name>, with the same expression
\* when it had one and without value when it had none; every other
\* attribute, spread attributes included, is unchanged; the tag name and
\* the self-closing or paired form are unchanged.
C18_AttributesInPlace ==
  TransformCalled => Rewritten(srcFile.parse.sf.root, returned[1].root, FALSE)

\* the transform ran over <div><tag {...props} on:click={fn}>...</tag></div>
C18_Witness ==
  /\ TransformCalled
  /\ srcFile.parse.sf.root.tag = "div"
  /\ Len(srcFile.parse.sf.root.kids) = 1
  /\ srcFile.parse.sf.root.kids[1].k = "el"
  /\ ~srcFile.parse.sf.root.kids[1].sc
  /\ srcFile.parse.sf.root.kids[1].attrs = <<JsxSpreadAttribute("props"), onExpr>>
  /\ NameText(returned[1].root.kids[1].attrs[2]) = "data-on-click"

\* the directive attributes with a string literal value in the tree under
\* n, at any depth, by position
RECURSIVE DirectiveStrings(_, _)
DirectiveStrings(n, path) ==
  (IF n.k = "el"
   THEN {Append(path, <<"attr", i>>) :
           i \in {j \in DOMAIN n.attrs : IsDirective(n.attrs[j]) /\ n.attrs[j].init = "string"}}
   ELSE {})
    \cup LET below == Below(n, path)
         IN UNION {DirectiveStrings(below[i][1], below[i][2]) : i \in 1..Len(below)}

\* C19: for each directive attribute whose value is a string literal the
\* result of compile holds exactly one LYRA_DIRECTIVE_STRING diagnostic, of
\* severity warn, whatever the a11yLevel; the attribute is still rewritten
\* (no on: or class: name is left in the code) and meta.transformed is true.
C19_DirectiveStringWarned ==
  (CompileCalled /\ ParserClean) =>
     LET ds == returned[1].diagnostics
         warned == {i \in DOMAIN ds : ds[i].code = "LYRA_DIRECTIVE_STRING"}
         strings == DirectiveStrings(srcFile.parse.sf.root, <<>>)
     IN /\ \A at \in strings : Cardinality({i \in warned : ds[i].start = at}) = 1
        /\ Cardinality(warned) = Cardinality(strings)
        /\ \A i \in warned : ds[i].severity = "warn"
        /\ returned[1].meta.transformed = TRUE
        /\ \A i \in DOMAIN returned[1].code :
             returned[1].code[i] \notin {NameText(d) : d \in Directives}

\* C20: runA11yChecks returns the empty sequence for level off; for level
\* strict every diagnostic has severity error, for level warn every
\* diagnostic has severity warn; no element draws two diagnostics of the
\* same rule code.
C20_LevelsAndRules ==
  A11yCalled =>
     LET ds == returned[1]
         level == called[1].a11yLevel
     IN /\ level = "off" => ds = <<>>
        /\ level = "strict" => \A i \in DOMAIN ds : ds[i].severity = "error"
        /\ level = "warn" => \A i \in DOMAIN ds : ds[i].severity = "warn"
        /\ \A i, j \in DOMAIN ds :
             (ds[i].code = ds[j].code /\ ds[i].start = ds[j].start) => i = j

\* level warn on a tree where an element inside an attribute value breaks
\* three rules
C20_Witness ==
  /\ A11yCalled
  /\ called[1].a11yLevel = "warn"
  /\ Len(returned[1]) = 3
  /\ returned[1][1].start = <<<<"attr", 1>>, <<"in", 1>>>>
  /\ \A i \in 1..3 : returned[1][i].start = returned[1][1].start
  /\ Cardinality({returned[1][i].code : i \in 1..3}) = 3

\* the elements of the tree under n, n included, with their positions
RECURSIVE ElementsOf(_, _)
ElementsOf(n, path) ==
  (IF n.k = "el" THEN {<<n, path>>} ELSE {})
    \cup LET below == Below(n, path)
         IN UNION {ElementsOf(below[i][1], below[i][2]) : i \in 1..Len(below)}

\* the htmlFor and for values, quotes stripped, of the label elements
LabelValues(root) ==
  UNION {{STRIP_QUOTES(InitText(e[1].attrs[i])) :
            i \in {j \in DOMAIN e[1].attrs :
                     /\ e[1].attrs[j].k = "attr"
                     /\ NameText(e[1].attrs[j]) \in {"htmlFor", "for"}
                     /\ e[1].attrs[j].init # "none"}} :
           e \in {x \in ElementsOf(root, <<>>) : x[1].tag = "label"}}

\* C21: for every input, select or textarea that has an id attribute and
\* neither aria-label nor aria-labelledby, runA11yChecks emits exactly one
\* LYRA_A11Y_004 diagnostic when the id value, quotes stripped, is not among
\* the htmlFor / for values of the label elements of the file (before or
\* after the control), and none when it is; a control without id or with
\* aria-label / aria-labelledby gets none.
C21_LabelAssociation ==
  (A11yCalled /\ called[1].a11yLevel # "off") =>
     LET root == srcFile.parse.sf.root
         ds == returned[1]
     IN \A e \in ElementsOf(root, <<>>) :
          e[1].tag \in {"input", "select", "textarea"} =>
            LET n == e[1]
                got == Cardinality({i \in DOMAIN ds :
                                      ds[i].code = "LYRA_A11Y_004" /\ ds[i].start = e[2]})
            IN IF /\ Has(n, "id")
                  /\ ~Has(n, "aria-label")
                  /\ ~Has(n, "aria-labelledby")
                  /\ STRIP_QUOTES(Get(n, "id")) \notin LabelValues(root)
               THEN got = 1
               ELSE got = 0

----------------------------------------------------------------------------
(* Claims on generateSourceMap *)

MapCalled == called # <<>> /\ called[1].fn = "generateSourceMap"

\* the number of ";" in a mappings string
Semicolons(mappings) == Cardinality({i \in DOMAIN mappings : mappings[i] = ";"})

\* C22: the mappings string of generateSourceMap holds exactly (number of
\* output lines - 1) semicolons, so one possibly empty segment per output
\* line, whether the output has fewer, as many, or more lines than the
\* source.
C22_OneSegmentPerOutputLine ==
  MapCalled =>
    Semicolons(returned[1].mappings) = LineCount(srcFile.outputCode) - 1

\* outputs of three lines against sources of two, three and four lines have
\* been mapped
C22_Witness ==
  /\ MapCalled
  /\ LineCount(srcFile.outputCode) = 3
  /\ LineCount(srcFile.source) = 2
  /\ Semicolons(returned[1].mappings) = 2

\* mappings.split(";")
SplitLines(mappings) == Split(mappings, ";")

\* the base64 digit a character stands for
DigitOf(c) == (CHOOSE i \in DOMAIN VLQ_CHARS : VLQ_CHARS[i] = c) - 1

\* a reader of base64 VLQ: the numbers a segment holds
RECURSIVE vlqDecode(_, _, _)
vlqDecode(chars, acc, mul) ==
  IF chars = <<>> THEN <<>>
  ELSE LET d == DigitOf(Head(chars))
           v == acc + (d % 32) * mul
       IN IF d >= 32 THEN vlqDecode(Tail(chars), v, mul * 32)
          ELSE <<IF v % 2 = 1 THEN -(v \div 2) ELSE v \div 2>>
                 \o vlqDecode(Tail(chars), 0, 1)

\* field k of the segments of lines 1..n added up (a reader adds the source
\* index, source line and source column of a segment to those of the
\* segment before it)
RECURSIVE Accumulated(_, _, _)
Accumulated(lines, n, k) ==
  IF n = 0 THEN 0
  ELSE Accumulated(lines, n - 1, k)
         + (IF lines[n] = <<>> THEN 0 ELSE vlqDecode(lines[n], 0, 1)[k])

\* C23: read the way source maps are read (source-line deltas added up), the
\* mappings of generateSourceMap give every output line i below
\* min(input lines, output lines) exactly one segment, mapping output column
\* 0 to source file 0, source line i, source column 0; every output line
\* from min on has an empty segment.
C23_LineIdentity ==
  MapCalled =>
    LET lines == SplitLines(returned[1].mappings)
        outputLines == LineCount(srcFile.outputCode)
        linesToMap == Min(LineCount(srcFile.source), outputLines)
    IN /\ Len(lines) = outputLines
       /\ \A i \in 0..(outputLines - 1) :
            IF i < linesToMap
            THEN /\ "," \notin Range(lines[i + 1])
                 /\ Len(vlqDecode(lines[i + 1], 0, 1)) = 4
                 /\ vlqDecode(lines[i + 1], 0, 1)[1] = 0
                 /\ Accumulated(lines, i + 1, 2) = 0
                 /\ Accumulated(lines, i + 1, 3) = i
                 /\ Accumulated(lines, i + 1, 4) = 0
            ELSE lines[i + 1] = <<>>

\* an output of four lines and a source of three: lines 0..2 are mapped one
\* to one, line 3 has an empty segment
C23_Witness ==
  /\ MapCalled
  /\ LineCount(srcFile.outputCode) = 4
  /\ LineCount(srcFile.source) = 3
  /\ Accumulated(SplitLines(returned[1].mappings), 3, 3) = 2
  /\ SplitLines(returned[1].mappings)[4] = <<>>

----------------------------------------------------------------------------
(* Claims on formatCodeFrame *)

FrameCalled == called # <<>> /\ called[1].fn = "formatCodeFrame"

\* the printed lines, the index of the one marked ">", and the underline
\* that follows it
FrameLines == Split(returned[1], NL)
FrameTarget == CHOOSE t \in DOMAIN FrameLines : FrameLines[t][1] = ">"
FrameCarets == Cardinality({i \in DOMAIN FrameLines[FrameTarget + 1] :
                              FrameLines[FrameTarget + 1][i] = "^"})
FrameLead == Cardinality({i \in DOMAIN FrameLines[FrameTarget + 1] :
                            FrameLines[FrameTarget + 1][i] = " "})
\* the text of the target line in the source
TargetText ==
  Split(srcFile.source, NL)[offsetToLineColumn(srcFile.source, srcFile.start).line]

\* C24: in the output of formatCodeFrame the caret underline starts under
\* the offending column of the target line as printed, and it is clamped to
\* the line: (column - 1) + number of carets is at most the length of the
\* target line, for every source, start and length.
C24_CaretsAlignedAndClamped ==
  FrameCalled =>
    LET column == offsetToLineColumn(srcFile.source, srcFile.start).column
        textAt == Len(FrameLines[FrameTarget]) - Len(TargetText)
    IN /\ FrameLead = textAt + (column - 1)
       /\ (column - 1) + FrameCarets <= Len(TargetText)

----------------------------------------------------------------------------
(* Further claims on signal() and batch() *)

\* a batch call is executing: its body runs or its flush is in progress
BatchExecuting ==
  batchDepth # 0 \/ \E i \in DOMAIN stack : stack[i].k \in {"body", "flush"}

\* C25: the batch depth counter is never negative, and whenever no batch
\* call is executing (the depth is 0 and no flush is in progress) the queue
\* of pending notifications is empty, after any sequence of writes, nested
\* batches, batches whose body throws and listeners that throw during a
\* flush.
C25_QueueEmptyOutsideBatch ==
  /\ batchDepth >= 0
  /\ ~BatchExecuting => pendingEffects = <<>>

\* a listener threw during the flush of the outermost batch and control is
\* back at top level: a notification queued behind it was never delivered
\* and is not in the queue either
C25_Witness ==
  /\ stack = <<>>
  /\ last.op = "batchThrow"
  /\ last.fn = "aborted"
  /\ pendingEffects = <<>>
  /\ \E k \in Writes(trace) :
       /\ trace[k].d > 0
       /\ \E l \in Range(trace[k].subs) : CallsFor(trace, trace[k].id, l) = {}

\* the listener sets of all signals but s are as they were, and so is the
\* membership in s of every listener but l
OnlyMembershipOf(l, s) ==
  /\ \A s2 \in DOMAIN listeners : s2 # s => listeners'[s2] = listeners[s2]
  /\ Range(listeners'[s]) \ {l} = Range(listeners[s]) \ {l}

\* no listener is held twice by a signal, and no listener has been invoked
\* twice for one write
RegisteredOnce ==
  /\ \A s \in DOMAIN listeners :
       \A i, j \in DOMAIN listeners[s] : listeners[s][i] = listeners[s][j] => i = j
  /\ \A k \in Writes(trace) :
       \A l \in Range(trace[k].subs) : Cardinality(CallsFor(trace, trace[k].id, l)) <= 1

\* a subscribe call adds its listener and touches nothing else; the first
\* call of the closure it returned removes that listener and touches
\* nothing else
SubscribeFrame ==
  /\ \A p \in PairsSubscribe :
       SubscribeCall(p[1], p[2]) =>
         /\ OnlyMembershipOf(p[1], p[2])
         /\ p[1] \in Range(listeners'[p[2]])
  /\ \A u \in DOMAIN unsubscribes :
       (~unsubscribes[u].called /\ UnsubscribeCall(u)) =>
         /\ OnlyMembershipOf(unsubscribes[u].fn, unsubscribes[u].sig)
         /\ unsubscribes[u].fn \notin Range(listeners'[unsubscribes[u].sig])

\* C26 (as stated): subscribe changes only the membership of its listener,
\* the returned unsubscribe removes exactly that listener, calling the same
\* unsubscribe again is a no-op, and a function subscribed twice is
\* registered once and invoked at most once per write.
C26_UnsubscribeAgainIsNoOp ==
  /\ []RegisteredOnce
  /\ [][/\ SubscribeFrame
        /\ \A u \in DOMAIN unsubscribes :
             (unsubscribes[u].called /\ UnsubscribeCall(u)) => listeners' = listeners]_vars

\* C26 (amended): as above, but a later call of the same unsubscribe is a
\* no-op only while the function is not subscribed; if the function has
\* been subscribed again in the meantime, the later call removes it (and
\* nothing else).
C26_UnsubscribeDeletes ==
  /\ []RegisteredOnce
  /\ [][/\ SubscribeFrame
        /\ \A u \in DOMAIN unsubscribes :
             (unsubscribes[u].called /\ UnsubscribeCall(u)) =>
               /\ OnlyMembershipOf(unsubscribes[u].fn, unsubscribes[u].sig)
               /\ unsubscribes[u].fn \notin Range(listeners'[unsubscribes[u].sig])
               /\ unsubscribes[u].fn \notin Range(listeners[unsubscribes[u].sig])
                    => listeners' = listeners]_vars

\* one function was subscribed to one signal by two calls; the closure of
\* the first call has just been called again and has removed the function,
\* which the second call had subscribed; the closure of the second call was
\* never called
C26_Witness ==
  /\ Len(unsubscribes) = 2
  /\ unsubscribes[1].fn = unsubscribes[2].fn
  /\ unsubscribes[1].sig = unsubscribes[2].sig
  /\ ~unsubscribes[2].called
  /\ last.op = "unsubscribe"
  /\ last.w = 1
  /\ last.entry = 1
  /\ unsubscribes[1].deleted
  /\ unsubscribes[1].fn \notin Range(listeners[unsubscribes[1].sig])

\* C27: batching defers only notifications, never the stored value: right
\* after a value-changing write inside a batch, signal.value is the written
\* value, while a computed that depends on the signal keeps its value as
\* long as the batch runs and is up to date once the outermost batch has
\* flushed (the flush of the batch that held the write has run to its end).
C27_ValueNowComputedAtFlush ==
  /\ [](  (last.op = "write" /\ last.set.d > 0 /\ last.set.old # last.set.v)
            => value[last.set.sig] = last.set.v)
  /\ [][(computedMade /\ batchDepth > 0 /\ batchDepth' > 0)
          => value'["c"] = value["c"]]_vars
  /\ []((OutermostBatchDone /\ \E k \in Writes(trace) :
                                   /\ trace[k].d > 0
                                   /\ Range(trace[k].subs) \cap {"cA", "cB"} # {})
          => value["c"] = Mul(value["a"], value["b"]))

\* inside a batch a write to a dependency has just returned: the signal
\* holds the written value and the computed still holds the product of the
\* old values
C27_Witness ==
  /\ computedMade
  /\ batchDepth > 0
  /\ last.op = "write"
  /\ last.set.old # last.set.v
  /\ last.set.sig \in {"a", "b"}
  /\ value[last.set.sig] = last.set.v
  /\ value["c"] # Mul(value["a"], value["b"])

----------------------------------------------------------------------------
(* Further claims on mount() *)

\* the click handlers that mount call m attached
HandlersOf(m) == {mounts[m].fns[i].h : i \in Removals(m)}

C30_DomFollowsSignal ==
  (mounted /\ ~cleaned /\ stack = <<>> /\ ~exc /\ batchDepth = 0)
     => dom = setDomProp(domProp, value[BoundSig])
====
